---- MODULE Spec2Model ----
(***************************************************************************)
(* website-fetcher: the crawl orchestrator (fetchWebsite), the URL         *)
(* admission predicate (urlFilter), the path reconstructor                 *)
(* (reconstructUrl), the sitemap builder (buildSitemap) and the digest     *)
(* generator (generateLlmsTxt).                                            *)
(*                                                                         *)
(* Text is modelled as a sequence of tokens.  Every token stands for a     *)
(* fixed run of characters ("wp-admin", "/", ".", "htm", "l", ...) and the *)
(* token alphabet is chosen so that no pattern the code searches for can   *)
(* match across a token boundary: startsWith, endsWith, includes, ===,     *)
(* slice and replace on the JavaScript strings coincide with the same      *)
(* operations on the token sequences.  ".html" is the three tokens         *)
(* ".", "htm", "l", so that ".htm" is a proper prefix of it as in the code.*)
(* The one search for a run of characters inside a token is                *)
(* href.startsWith('http'), which is asked of the first token.             *)
(***************************************************************************)
EXTENDS Integers, Sequences, FiniteSets, TLC

VARIABLES pc, run, opts, assetsFs, contentFs, outFs, htmlFiles, idx,
          pages, assets, errors, scrapeThrew, siteContent, result,
          engineCalls, steps, call, ret

vars == <<pc, run, opts, assetsFs, contentFs, outFs, htmlFiles, idx,
          pages, assets, errors, scrapeThrew, siteContent, result,
          engineCalls, steps, call, ret>>

runVars == <<pc, run, opts, assetsFs, contentFs, outFs, htmlFiles, idx,
             pages, assets, errors, scrapeThrew, siteContent, result,
             engineCalls, steps>>

(***************************************************************************)
(* String operations of the JavaScript runtime, on token sequences.        *)
(***************************************************************************)
StartsWith(s, p) == Len(p) <= Len(s) /\ SubSeq(s, 1, Len(p)) = p

EndsWith(s, p) == Len(p) <= Len(s) /\ SubSeq(s, Len(s) - Len(p) + 1, Len(s)) = p

Includes(s, p) == \E i \in 1..(Len(s) - Len(p) + 1) : SubSeq(s, i, i + Len(p) - 1) = p

\* s.slice(n): s without its first n tokens
Slice(s, n) == SubSeq(s, n + 1, Len(s))

\* s.indexOf(p), 1-based; 0 when p does not occur
IndexOf(s, p) ==
  IF Includes(s, p)
    THEN CHOOSE i \in 1..(Len(s) - Len(p) + 1) :
           /\ SubSeq(s, i, i + Len(p) - 1) = p
           /\ \A j \in 1..(i - 1) : SubSeq(s, j, j + Len(p) - 1) # p
    ELSE 0

\* s.replace(p, r) with a string pattern: the first occurrence only
ReplaceFirst(s, p, r) ==
  IF Includes(s, p)
    THEN SubSeq(s, 1, IndexOf(s, p) - 1) \o r \o Slice(s, IndexOf(s, p) + Len(p) - 1)
    ELSE s

\* s.replace(/p$/, r): an occurrence at the end only
ReplaceAtEnd(s, p, r) ==
  IF EndsWith(s, p) THEN SubSeq(s, 1, Len(s) - Len(p)) \o r ELSE s

\* the number of occurrences of the token c in s: (s.match(/c/g) || []).length
RECURSIVE CountTok(_, _)
CountTok(s, c) ==
  IF s = <<>> THEN 0
  ELSE (IF Head(s) = c THEN 1 ELSE 0) + CountTok(Tail(s), c)

(***************************************************************************)
(* The URL class of the runtime (WHATWG URL), for the URL shapes the model *)
(* draws: an absolute URL of a special scheme is scheme ":" "//" host path,*)
(* an absolute URL of another scheme is scheme ":" rest, anything else is  *)
(* a reference relative to the base.                                       *)
(***************************************************************************)
SpecialSchemes == {"http", "https", "ftp"}

OpaqueSchemes == {"mailto", "tel", "javascript"}

\* the parser lower-cases the host of a special scheme
LowerTok(t) ==
  CASE t = "WWW" -> "www"
    [] t = "EX" -> "ex"
    [] OTHER -> t

Lower(s) == [i \in 1..Len(s) |-> LowerTok(s[i])]

\* the tokens of s before its first "/" token (all of s when there is none)
RECURSIVE UpToSlash(_)
UpToSlash(s) ==
  IF s = <<>> \/ Head(s) = "/" THEN <<>> ELSE <<Head(s)>> \o UpToSlash(Tail(s))

\* a host is refused when empty or when it holds a forbidden code point (a space)
ValidHost(h) == h # <<>> /\ \A i \in 1..Len(h) : h[i] # " "

IsAbsolute(raw) ==
  Len(raw) >= 2 /\ raw[2] = ":" /\ raw[1] \in SpecialSchemes \cup OpaqueSchemes

\* new URL(raw): ok = FALSE stands for the TypeError the constructor throws
ParseAbsolute(raw) ==
  IF raw[1] \in OpaqueSchemes
    THEN [ok |-> TRUE, protocol |-> raw[1], hostname |-> <<>>, pathname |-> Slice(raw, 2)]
  ELSE IF Len(raw) >= 3 /\ raw[3] = "//" /\ ValidHost(UpToSlash(Slice(raw, 3)))
    THEN LET host == UpToSlash(Slice(raw, 3))
             rest == Slice(raw, 3 + Len(host))
         IN  [ok |-> TRUE, protocol |-> raw[1], hostname |-> Lower(host),
              pathname |-> IF rest = <<>> THEN <<"/">> ELSE rest]
  ELSE [ok |-> FALSE, protocol |-> "", hostname |-> <<>>, pathname |-> <<>>]

\* the directory part of a path: everything up to and including its last "/"
RECURSIVE DirOf(_)
DirOf(p) ==
  IF p = <<>> THEN <<"/">>
  ELSE IF p[Len(p)] = "/" THEN p
  ELSE DirOf(SubSeq(p, 1, Len(p) - 1))

\* new URL(raw, base) for a base that parses
ParseURL(raw, base) ==
  LET b == ParseAbsolute(base) IN
  IF IsAbsolute(raw) THEN ParseAbsolute(raw)
  ELSE IF raw = <<>> \/ Head(raw) = "#" THEN b
  ELSE IF Head(raw) = "/" THEN [b EXCEPT !.pathname = raw]
  ELSE [b EXCEPT !.pathname = DirOf(b.pathname) \o raw]

\* URL.origin of a special-scheme URL: scheme "://" host
Origin(u) == <<u.protocol, ":", "//">> \o u.hostname

(***************************************************************************)
(* normalizeHostname: hostname.replace(/^www\./, '')                       *)
(***************************************************************************)
normalizeHostnameKeepWww(hostname) == hostname

normalizeHostname(hostname) ==
  IF StartsWith(hostname, <<"www", ".">>) THEN Slice(hostname, 2) ELSE hostname

(***************************************************************************)
(* urlFilter: the admission predicate handed to the fetch engine.          *)
(* resourceUrl is the candidate, url the seed of the run.                  *)
(***************************************************************************)
\* the catch clause that refuses whatever does not parse
urlFilterCatchRefuse(resourceUrl) == FALSE

urlFilterCatch(resourceUrl) ==
  /\ ~StartsWith(resourceUrl, <<"mailto", ":">>)
  /\ ~StartsWith(resourceUrl, <<"tel", ":">>)
  /\ ~StartsWith(resourceUrl, <<"javascript", ":">>)
  /\ ~StartsWith(resourceUrl, <<"#">>)

urlFilterNoAdminCheck(resourceUrl, url) ==
  LET resUrl == ParseURL(resourceUrl, url)
      normalizedBaseHost == normalizeHostname(ParseAbsolute(url).hostname)
  IN  IF resUrl.ok
        THEN /\ normalizeHostname(resUrl.hostname) = normalizedBaseHost
             /\ resUrl.protocol \in {"http", "https"}
        ELSE urlFilterCatch(resourceUrl)

urlFilterAnyProtocol(resourceUrl, url) ==
  LET resUrl == ParseURL(resourceUrl, url)
      normalizedBaseHost == normalizeHostname(ParseAbsolute(url).hostname)
  IN  IF resUrl.ok
        THEN /\ normalizeHostname(resUrl.hostname) = normalizedBaseHost
             /\ ~Includes(resUrl.pathname, <<"/", "wp-admin">>)
             /\ ~Includes(resUrl.pathname, <<"/", "wp-login">>)
        ELSE urlFilterCatch(resourceUrl)

urlFilter(resourceUrl, url) ==
  LET resUrl == ParseURL(resourceUrl, url)
      normalizedBaseHost == normalizeHostname(ParseAbsolute(url).hostname)
  IN  IF resUrl.ok
        THEN LET normalizedResHost == normalizeHostname(resUrl.hostname)
                 isSameDomain == normalizedResHost = normalizedBaseHost
                 isValidProtocol == resUrl.protocol = "http" \/ resUrl.protocol = "https"
                 isNotAdmin == /\ ~Includes(resUrl.pathname, <<"/", "wp-admin">>)
                               /\ ~Includes(resUrl.pathname, <<"/", "wp-login">>)
             IN  isSameDomain /\ isValidProtocol /\ isNotAdmin
        ELSE urlFilterCatch(resourceUrl)

(***************************************************************************)
(* reconstructUrl: the canonical URL of a downloaded file, from the seed   *)
(* and the file's path relative to the download directory.                 *)
(***************************************************************************)
hostVariants(base) ==
  << base.hostname,
     normalizeHostname(base.hostname),
     <<"www", ".">> \o normalizeHostname(base.hostname) >>

\* the for loop over hostVariants from position i on; break at the first match
RECURSIVE stripHostFolder(_, _, _)
stripHostFolder(relativePath, variants, i) ==
  IF i > Len(variants) THEN relativePath
  ELSE IF StartsWith(relativePath, variants[i] \o <<"/">>)
    THEN Slice(relativePath, Len(variants[i]) + 1)
  ELSE IF StartsWith(relativePath, variants[i])
    THEN Slice(relativePath, Len(variants[i]))
  ELSE stripHostFolder(relativePath, variants, i + 1)

reconstructUrlKeepExtension(baseUrl, relativePath) ==
  LET base == ParseAbsolute(baseUrl)
      pathWithoutHost == stripHostFolder(relativePath, hostVariants(base), 1)
  IN  IF pathWithoutHost = <<"index", ".", "htm", "l">> \/ pathWithoutHost = <<>>
        THEN Origin(base) \o <<"/">>
        ELSE Origin(base) \o <<"/">>
               \o ReplaceAtEnd(pathWithoutHost, <<"/", "index", ".", "htm", "l">>, <<"/">>)

reconstructUrl(baseUrl, relativePath) ==
  LET base == ParseAbsolute(baseUrl)
      pathWithoutHost == stripHostFolder(relativePath, hostVariants(base), 1)
      cleanPath ==
        ReplaceAtEnd(
          ReplaceAtEnd(pathWithoutHost, <<"/", "index", ".", "htm", "l">>, <<"/">>),
          <<".", "htm", "l">>, <<>>)
  IN  IF pathWithoutHost = <<"index", ".", "htm", "l">> \/ pathWithoutHost = <<>>
        THEN Origin(base) \o <<"/">>
        ELSE Origin(base) \o <<"/">> \o cleanPath

(***************************************************************************)
(* buildSitemap: one entry per page, sorted by depth.  Array.prototype.sort*)
(* is stable (ECMAScript 2019), modelled as a stable insertion sort.       *)
(***************************************************************************)
sitemapEntry(p) == [url |-> p.url, title |-> p.title, depth |-> CountTok(p.path, "/")]

\* e placed behind every entry of the sorted sequence s whose depth is <= e.depth
RECURSIVE insertByDepth(_, _)
insertByDepth(s, e) ==
  IF s = <<>> THEN <<e>>
  ELSE IF Head(s).depth <= e.depth THEN <<Head(s)>> \o insertByDepth(Tail(s), e)
  ELSE <<e>> \o s

RECURSIVE sortByDepth(_)
sortByDepth(s) ==
  IF s = <<>> THEN <<>>
  ELSE insertByDepth(sortByDepth(SubSeq(s, 1, Len(s) - 1)), s[Len(s)])

buildSitemapUnsorted(pgs) == [i \in 1..Len(pgs) |-> sitemapEntry(pgs[i])]

buildSitemap(pgs) == sortByDepth([i \in 1..Len(pgs) |-> sitemapEntry(pgs[i])])

(***************************************************************************)
(* extractPageContent.  A document is given by what the HTML query library *)
(* answers for it: title is $('title').text(), metaDescription and         *)
(* ogDescription the two meta contents (<<>> when missing), hs the h1..h6  *)
(* elements in document order with their text, ps the text of the p        *)
(* elements in document order, anchors the a[href] elements in document    *)
(* order with their href and text, version the download the text came      *)
(* from.  Body text is one token per character.                            *)
(***************************************************************************)
ParagraphMin == 20

firstH1Text(hs) ==
  IF \E i \in 1..Len(hs) : hs[i].level = 1
    THEN hs[CHOOSE i \in 1..Len(hs) :
              hs[i].level = 1 /\ \A j \in 1..(i - 1) : hs[j].level # 1].text
    ELSE <<>>

\* s.trim(): the white space at both ends goes; " " is the white-space token
RECURSIVE TrimStart(_)
TrimStart(s) == IF s # <<>> /\ Head(s) = " " THEN TrimStart(Tail(s)) ELSE s

RECURSIVE TrimEnd(_)
TrimEnd(s) ==
  IF s # <<>> /\ s[Len(s)] = " " THEN TrimEnd(SubSeq(s, 1, Len(s) - 1)) ELSE s

Trim(s) == TrimEnd(TrimStart(s))

keepParagraphAtLeast(text) == text # <<>> /\ Len(text) >= ParagraphMin

\* line 39, on the trimmed text of a p element
keepParagraph(text) == text # <<>> /\ Len(text) > ParagraphMin

\* the first tokens of strings whose characters begin with http
HttpPrefixed == {"http", "https", "httpd"}

\* href.startsWith('http')
startsWithHttp(href) == href # <<>> /\ href[1] \in HttpPrefixed

\* line 65: the anchors that become links
keepLink(href) ==
  href # <<>> /\ ~StartsWith(href, <<"#">>) /\ ~StartsWith(href, <<"javascript", ":">>)

\* line 66
isExternal(href, hostname) == startsWithHttp(href) /\ ~Includes(href, hostname)

extractPageContent(html, url) ==
  LET doc == html
      baseUrl == ParseAbsolute(url)
      hsText == [i \in 1..Len(doc.hs) |-> [level |-> doc.hs[i].level,
                                           text |-> Trim(doc.hs[i].text)]]
      psText == [i \in 1..Len(doc.ps) |-> Trim(doc.ps[i])]
      hasText(h) == h.text # <<>>
      isLink(a) == keepLink(a.href)
      anchors == SelectSeq(doc.anchors, isLink)
  IN  [ url         |-> url,
        path        |-> ParseAbsolute(url).pathname,
        title       |-> IF Trim(doc.title) # <<>> THEN Trim(doc.title)
                        ELSE IF firstH1Text(hsText) # <<>> THEN firstH1Text(hsText)
                        ELSE <<"Untitled">>,
        description |-> IF doc.metaDescription # <<>> THEN doc.metaDescription
                        ELSE doc.ogDescription,
        headings    |-> SelectSeq(hsText, hasText),
        paragraphs  |-> SelectSeq(psText, keepParagraph),
        links       |-> [i \in 1..Len(anchors) |->
                           [href       |-> anchors[i].href,
                            text       |-> Trim(anchors[i].text),
                            isExternal |-> isExternal(anchors[i].href, baseUrl.hostname)]],
        rawHtml     |-> html ]

(***************************************************************************)
(* generateLlmsTxt: the digest.  llmsTxtLines is the lines array as it     *)
(* stands before the final join; a line is a token sequence, '' is <<>>.   *)
(***************************************************************************)
SummaryLimit == 300

Min(a, b) == IF a <= b THEN a ELSE b

\* s.substring(0, n)
Substring0(s, n) == SubSeq(s, 1, Min(n, Len(s)))

summaryLineNoEllipsis(paragraph) == Substring0(paragraph, SummaryLimit)

summaryLine(paragraph) ==
  Substring0(paragraph, SummaryLimit)
    \o (IF Len(paragraph) > SummaryLimit THEN <<"...">> ELSE <<>>)

\* the "Seiten / Pages" list: one link line per page, its description beneath
RECURSIVE pageListLines(_)
pageListLines(pgs) ==
  IF pgs = <<>> THEN <<>>
  ELSE LET page == Head(pgs) IN
       << <<"- [">> \o page.title \o <<"](">> \o page.url \o <<")">> >>
         \o (IF page.description # <<>> THEN << <<"  ">> \o page.description >> ELSE <<>>)
         \o pageListLines(Tail(pgs))

RECURSIVE headingBulletsAll(_)
headingBulletsAll(hs) ==
  IF hs = <<>> THEN <<>>
  ELSE << <<"- ">> \o Head(hs).text >> \o headingBulletsAll(Tail(hs))

RECURSIVE headingBullets(_)
headingBullets(hs) ==
  IF hs = <<>> THEN <<>>
  ELSE (IF Head(hs).level <= 2 THEN << <<"- ">> \o Head(hs).text >> ELSE <<>>)
         \o headingBullets(Tail(hs))

\* the subsection of one page in "Inhalt / Content"; no lines for a bare page
pageSectionLines(page) ==
  IF Len(page.headings) > 0 \/ Len(page.paragraphs) > 0
    THEN << <<"### ">> \o page.title, <<"URL: ">> \o page.url, <<>> >>
           \o headingBullets(page.headings)
           \o (IF page.paragraphs # <<>> /\ page.paragraphs[1] # <<>>
                 THEN << <<>>, summaryLine(page.paragraphs[1]) >>
                 ELSE <<>>)
           \o << <<>> >>
    ELSE <<>>

RECURSIVE contentLines(_)
contentLines(pgs) ==
  IF pgs = <<>> THEN <<>> ELSE pageSectionLines(Head(pgs)) \o contentLines(Tail(pgs))

\* pages.find(p => p.path === '/' || p.path === '')?.description, <<>> when none
homepageDescription(pgs) ==
  IF \E i \in 1..Len(pgs) : pgs[i].path = <<"/">> \/ pgs[i].path = <<>>
    THEN pgs[CHOOSE i \in 1..Len(pgs) :
               /\ pgs[i].path = <<"/">> \/ pgs[i].path = <<>>
               /\ \A j \in 1..(i - 1) : ~(pgs[j].path = <<"/">> \/ pgs[j].path = <<>>)
            ].description
    ELSE <<>>

llmsTxtLines(pgs, baseUrl) ==
  << <<"# ">> \o ParseAbsolute(baseUrl).hostname, <<>> >>
    \o (IF homepageDescription(pgs) # <<>>
          THEN << <<"> ">> \o homepageDescription(pgs), <<>> >> ELSE <<>>)
    \o << <<"## Seiten / Pages">>, <<>> >>
    \o pageListLines(pgs)
    \o << <<>>, <<"## Inhalt / Content">>, <<>> >>
    \o contentLines(pgs)

\* lines.join('\n')
RECURSIVE JoinLines(_)
JoinLines(lines) ==
  IF lines = <<>> THEN <<>>
  ELSE IF Len(lines) = 1 THEN lines[1]
  ELSE lines[1] \o <<"\n">> \o JoinLines(Tail(lines))

generateLlmsTxt(pgs, baseUrl) == JoinLines(llmsTxtLines(pgs, baseUrl))

(***************************************************************************)
(* The site and the file system of one output directory.                   *)
(***************************************************************************)
MaxRuns == 2

\* the seed of the runs: options.url
SeedUrl == <<"https", ":", "//", "www", ".", "ex", ".", "com", "/">>

\* path.join(outputDir, 'assets')
AssetsDir == <<"out", "/", "assets">>

\* what the fetch engine can download, as paths relative to AssetsDir, in the
\* order a recursive directory listing yields them (filenameGenerator
\* 'bySiteStructure': a folder per host); the site serves /about.htm,
\* /css/site.css and /index.html
SiteFiles ==
  << <<"www", ".", "ex", ".", "com", "/", "about", ".", "htm">>,
     <<"www", ".", "ex", ".", "com", "/", "css", "/", "site", ".", "css">>,
     <<"www", ".", "ex", ".", "com", "/", "index", ".", "htm", "l">> >>

Char(i) == IF i % 2 = 1 THEN "a" ELSE "b"

Text(n) == [i \in 1..n |-> Char(i)]

\* the document served at a path in the download numbered v
SiteHtml(path, v) ==
  IF Includes(path, <<"index">>)
    THEN [title |-> <<"Home">>, metaDescription |-> <<"intro">>, ogDescription |-> <<>>,
          hs |-> << [level |-> 1, text |-> <<"Home">>] >>,
          ps |-> << Text(ParagraphMin + 1), Text(ParagraphMin) >>, anchors |-> <<>>,
          version |-> v]
    ELSE [title |-> <<>>, metaDescription |-> <<>>, ogDescription |-> <<>>,
          hs |-> <<>>, ps |-> <<>>, anchors |-> <<>>, version |-> v]

\* a file on disk: its content and size are those of the download that wrote it
Downloaded(path, v) == [path |-> path, content |-> SiteHtml(path, v), size |-> 100 + v]

FilePaths(fs) == {f.path : f \in fs}

FileAt(fs, path) == CHOOSE f \in fs : f.path = path

\* the paths of SiteFiles present in fs, in listing order
RECURSIVE ListFrom(_, _)
ListFrom(fs, i) ==
  IF i > Len(SiteFiles) THEN <<>>
  ELSE (IF SiteFiles[i] \in FilePaths(fs) THEN <<SiteFiles[i]>> ELSE <<>>)
         \o ListFrom(fs, i + 1)

isHtmlName(path) ==
  EndsWith(path, <<".", "htm", "l">>) \/ EndsWith(path, <<".", "htm">>)

\* findAllFiles(assetsDir): full paths
findAllFiles(fs) ==
  LET rel == ListFrom(fs, 1) IN [i \in 1..Len(rel) |-> AssetsDir \o <<"/">> \o rel[i]]

\* findHtmlFiles(assetsDir): full paths of the *.html and *.htm files
findHtmlFiles(fs) == SelectSeq(findAllFiles(fs), isHtmlName)

\* path.relative(assetsDir, file)
relativeToAssets(file) == Slice(file, Len(AssetsDir) + 1)

\* path.extname(file).toLowerCase(): from the last "." on
RECURSIVE extname(_)
extname(file) ==
  IF file = <<>> \/ file[Len(file)] = "/" THEN <<>>
  ELSE IF file[Len(file)] = "." THEN <<".">>
  ELSE LET e == extname(SubSeq(file, 1, Len(file) - 1)) IN
       IF e = <<>> THEN <<>> ELSE e \o <<file[Len(file)]>>

assetType(ext) ==
  IF ext = <<".", "css">> THEN "css"
  ELSE IF ext = <<".", "js">> THEN "js"
  ELSE IF ext \in { <<".", "jpg">>, <<".", "jpeg">>, <<".", "png">>, <<".", "gif">>,
                    <<".", "svg">>, <<".", "webp">>, <<".", "ico">> } THEN "image"
  ELSE IF ext \in { <<".", "woff">>, <<".", "woff2">>, <<".", "ttf">>, <<".", "eot">>,
                    <<".", "otf">> } THEN "font"
  ELSE "other"

\* the AssetInfo pushed for one file of the catalog loop
assetInfo(fs, file) ==
  LET relativePath == relativeToAssets(file) IN
  [ url       |-> reconstructUrl(SeedUrl, relativePath),
    localPath |-> relativePath,
    type      |-> assetType(extname(file)),
    size      |-> FileAt(fs, relativePath).size ]

\* path of the per-page JSON under the content directory, relative to it
jsonPathOf(relativePath) ==
  ReplaceFirst(relativePath, <<".", "htm", "l">>, <<".", "json">>)

(***************************************************************************)
(* fetchWebsite, one action per step of the function.  pc is the position  *)
(* in the body: "scrape" before the call of the fetch engine, "findHtml"   *)
(* and "extract" in the extraction block, "catalog" before the asset loop, *)
(* "assemble" behind the try statement, "persist" before the output files  *)
(* are written, "done" once the function has returned, "thrown" once it    *)
(* has rejected.  run counts the calls; the file system outlives them.     *)
(* engineCalls holds the configuration of every call of the fetch engine   *)
(* the run has made; steps is the history of the run: the awaited steps    *)
(* that have ended, in the order they ended.                               *)
(***************************************************************************)
DefaultMaxConcurrency == 5

DefaultTimeout == 30000

\* the destructuring of lines 270-284, with its defaults
destructure(o, limits) ==
  [ extractContent |-> o.extractContent,
    genLlms        |-> o.genLlms,
    genMd          |-> o.genMd,
    limits         |-> limits,
    maxConcurrency |-> IF limits = <<>> THEN DefaultMaxConcurrency ELSE limits[1],
    timeout        |-> IF limits = <<>> THEN DefaultTimeout ELSE limits[2] ]

\* the argument of scrape(...), lines 348-388; sources and subdirectories
\* are fixed lists and urlFilter is the predicate above
scrapeConfig(o) ==
  [ urls              |-> <<SeedUrl>>,
    directory         |-> AssetsDir,
    recursive         |-> TRUE,
    maxRecursiveDepth |-> 10,
    request           |-> [headers |-> [userAgent |-> "Mozilla/5.0 (compatible; WebsiteFetcher/1.0)"]],
    filenameGenerator |-> "bySiteStructure" ]

\* the options a caller gives: every choice of the three switches without
\* maxConcurrency and timeout (limits is <<>>), and one with both given
CallerOptions ==
  { destructure(o, <<>>) :
      o \in [extractContent : BOOLEAN, genLlms : BOOLEAN, genMd : BOOLEAN] }
    \cup { destructure([extractContent |-> TRUE, genLlms |-> TRUE, genMd |-> TRUE],
                       <<2, 1000>>) }

Ev(op, file) == [op |-> op, file |-> file]

NoSiteContent ==
  [baseUrl |-> <<>>, fetchedAt |-> 0, totalPages |-> 0, totalAssets |-> 0,
   pages |-> <<>>, assets |-> <<>>, sitemap |-> <<>>, suggestedLlmsTxt |-> <<>>]

NoResult == [returned |-> FALSE, success |-> FALSE, siteContent |-> NoSiteContent,
             errors |-> <<>>]

NoCall == [op |-> "none"]

RunInit ==
  /\ pc = "idle"
  /\ run = 0
  /\ opts = destructure([extractContent |-> TRUE, genLlms |-> TRUE, genMd |-> TRUE], <<>>)
  /\ assetsFs = {}
  /\ contentFs = {}
  /\ outFs = {}
  /\ htmlFiles = <<>>
  /\ idx = 0
  /\ pages = <<>>
  /\ assets = <<>>
  /\ errors = <<>>
  /\ scrapeThrew = FALSE
  /\ siteContent = NoSiteContent
  /\ result = NoResult
  /\ engineCalls = <<>>
  /\ steps = <<>>

Init == RunInit /\ call = NoCall /\ ret = <<>>

\* fs.remove(assetsDir)
removeAssetsDir(fs) == {}

\* lines 270-299: the options, the directories, the empty lists
Start ==
  /\ pc \in {"idle", "done", "thrown"}
  /\ run < MaxRuns
  /\ run' = run + 1
  /\ \E o \in CallerOptions : opts' = o
  /\ engineCalls' = <<>>
  /\ steps' = <<>>
  /\ assetsFs' = removeAssetsDir(assetsFs)
  /\ errors' = <<>>
  /\ pages' = <<>>
  /\ assets' = <<>>
  /\ htmlFiles' = <<>>
  /\ idx' = 0
  /\ scrapeThrew' = FALSE
  /\ siteContent' = NoSiteContent
  /\ result' = NoResult
  /\ pc' = "scrape"
  /\ UNCHANGED <<contentFs, outFs, call, ret>>

\* lines 292-295 with ensureDir or remove throwing: the call rejects before
\* anything is fetched, the directories as they were
StartThrows ==
  /\ pc \in {"idle", "done", "thrown"}
  /\ run < MaxRuns
  /\ run' = run + 1
  /\ \E o \in CallerOptions : opts' = o
  /\ engineCalls' = <<>>
  /\ steps' = <<>>
  /\ errors' = <<>>
  /\ pages' = <<>>
  /\ assets' = <<>>
  /\ htmlFiles' = <<>>
  /\ idx' = 0
  /\ scrapeThrew' = FALSE
  /\ siteContent' = NoSiteContent
  /\ result' = NoResult
  /\ pc' = "thrown"
  /\ UNCHANGED <<assetsFs, contentFs, outFs, call, ret>>

\* the files the fetch engine leaves in the directory when it downloads the
\* paths in got: it writes over what is there and removes nothing
scrapeInto(fs, got, v) ==
  {f \in fs : f.path \notin got} \cup {Downloaded(p, v) : p \in got}

\* line 348, scrape resolves: any part of the site may have been admitted
Scrape ==
  /\ pc = "scrape"
  /\ \E got \in SUBSET {SiteFiles[i] : i \in 1..Len(SiteFiles)} :
       assetsFs' = scrapeInto(assetsFs, got, run)
  /\ engineCalls' = Append(engineCalls, scrapeConfig(opts))
  /\ steps' = Append(steps, Ev("scrape", 0))
  /\ pc' = IF opts.extractContent THEN "findHtml" ELSE "catalog"
  /\ UNCHANGED <<run, opts, contentFs, outFs, htmlFiles, idx, pages, assets, errors,
                 scrapeThrew, siteContent, result, call, ret>>

\* the catch clause of lines 437-440
scrapingErrorDropped(errs, err) == errs

scrapingError(errs, err) == Append(errs, <<"Scraping error: ", err>>)

\* line 348, scrape rejects, whatever it had written by then
ScrapeThrows ==
  /\ pc = "scrape"
  /\ \E got \in SUBSET {SiteFiles[i] : i \in 1..Len(SiteFiles)} :
       assetsFs' = scrapeInto(assetsFs, got, run)
  /\ engineCalls' = Append(engineCalls, scrapeConfig(opts))
  /\ steps' = Append(steps, Ev("scrape", 0))
  /\ errors' = scrapingError(errors, "Error: network")
  /\ scrapeThrew' = TRUE
  /\ pc' = "assemble"
  /\ UNCHANGED <<run, opts, contentFs, outFs, htmlFiles, idx, pages, assets,
                 siteContent, result, call, ret>>

\* line 395
FindHtml ==
  /\ pc = "findHtml"
  /\ UNCHANGED <<engineCalls, steps>>
  /\ htmlFiles' = findHtmlFiles(assetsFs)
  /\ idx' = 1
  /\ pc' = "extract"
  /\ UNCHANGED <<run, opts, assetsFs, contentFs, outFs, pages, assets, errors,
                 scrapeThrew, siteContent, result, call, ret>>

\* line 395 with readdir throwing: the outer catch takes it
FindHtmlThrows ==
  /\ pc = "findHtml"
  /\ UNCHANGED <<engineCalls, steps>>
  /\ errors' = scrapingError(errors, "Error: readdir")
  /\ pc' = "assemble"
  /\ UNCHANGED <<run, opts, assetsFs, contentFs, outFs, htmlFiles, idx, pages, assets,
                 scrapeThrew, siteContent, result, call, ret>>

\* the catch clause of lines 410-412
extractError(errs, htmlFile, err) ==
  Append(errs, <<"Error extracting ">> \o htmlFile \o <<": ", err>>)

\* fs.writeJson(jsonPath, pageContent)
writeContent(fs, jsonPath, pageContent) ==
  {f \in fs : f.path # jsonPath} \cup {[path |-> jsonPath, page |-> pageContent]}

\* where the loop of line 397 goes after the body has thrown at position i
afterFailureAbort(i, n) == n + 1

afterFailure(i, n) == i + 1

\* the loop of line 397 ends when the list is used up
loopEndedEarly(i, n) == TRUE

loopEnded(i, n) == i > n

\* lines 397-413, one iteration: the body runs to its end, or throws before
\* pages.push (readFile, reconstructUrl, extractPageContent), or throws behind
\* it (ensureDir, writeJson)
ExtractFile ==
  /\ pc = "extract"
  /\ idx <= Len(htmlFiles)
  /\ steps' = Append(steps, Ev("extract", idx))
  /\ UNCHANGED engineCalls
  /\ LET htmlFile == htmlFiles[idx]
         relativePath == relativeToAssets(htmlFile)
         pageUrl == reconstructUrl(SeedUrl, relativePath)
         pageContent == extractPageContent(FileAt(assetsFs, relativePath).content, pageUrl)
         jsonPath == jsonPathOf(relativePath)
     IN  \/ /\ pages' = Append(pages, pageContent)
            /\ contentFs' = writeContent(contentFs, jsonPath, pageContent)
            /\ idx' = idx + 1
            /\ UNCHANGED errors
         \/ /\ errors' = extractError(errors, htmlFile, "Error: read")
            /\ idx' = afterFailure(idx, Len(htmlFiles))
            /\ UNCHANGED <<pages, contentFs>>
         \/ /\ pages' = Append(pages, pageContent)
            /\ errors' = extractError(errors, htmlFile, "Error: write")
            /\ idx' = afterFailure(idx, Len(htmlFiles))
            /\ UNCHANGED contentFs
  /\ UNCHANGED <<pc, run, opts, assetsFs, outFs, htmlFiles, assets, scrapeThrew,
                 siteContent, result, call, ret>>

ExtractDone ==
  /\ pc = "extract"
  /\ loopEnded(idx, Len(htmlFiles))
  /\ UNCHANGED <<engineCalls, steps>>
  /\ pc' = "catalog"
  /\ UNCHANGED <<run, opts, assetsFs, contentFs, outFs, htmlFiles, idx, pages, assets,
                 errors, scrapeThrew, siteContent, result, call, ret>>

\* lines 417-435: every file of the directory becomes an AssetInfo
Catalog ==
  /\ pc = "catalog"
  /\ steps' = Append(steps, Ev("catalog", 0))
  /\ UNCHANGED engineCalls
  /\ LET allFiles == findAllFiles(assetsFs) IN
       assets' = [i \in 1..Len(allFiles) |-> assetInfo(assetsFs, allFiles[i])]
  /\ pc' = "assemble"
  /\ UNCHANGED <<run, opts, assetsFs, contentFs, outFs, htmlFiles, idx, pages, errors,
                 scrapeThrew, siteContent, result, call, ret>>

\* lines 417-435 with readdir throwing (k = 0) or fs.stat throwing at file
\* k + 1: the outer catch takes it
CatalogThrows ==
  /\ pc = "catalog"
  /\ steps' = Append(steps, Ev("catalog", 0))
  /\ UNCHANGED engineCalls
  /\ LET allFiles == findAllFiles(assetsFs) IN
       \E k \in {0} \cup 0..(Len(allFiles) - 1) :
         assets' = [i \in 1..k |-> assetInfo(assetsFs, allFiles[i])]
  /\ errors' = scrapingError(errors, "Error: stat")
  /\ pc' = "assemble"
  /\ UNCHANGED <<run, opts, assetsFs, contentFs, outFs, htmlFiles, idx, pages,
                 scrapeThrew, siteContent, result, call, ret>>

\* lines 443-452; fetchedAt is the clock, which the run number stands for
Assemble ==
  /\ pc = "assemble"
  /\ steps' = Append(steps, Ev("assemble", 0))
  /\ UNCHANGED engineCalls
  /\ siteContent' =
       [ baseUrl          |-> SeedUrl,
         fetchedAt        |-> run,
         totalPages       |-> Len(pages),
         totalAssets      |-> Len(assets),
         pages            |-> pages,
         assets           |-> assets,
         sitemap          |-> buildSitemap(pages),
         suggestedLlmsTxt |-> IF opts.genLlms THEN generateLlmsTxt(pages, SeedUrl)
                              ELSE <<>> ]
  /\ pc' = "persist"
  /\ UNCHANGED <<run, opts, assetsFs, contentFs, outFs, htmlFiles, idx, pages, assets,
                 errors, scrapeThrew, result, call, ret>>

\* an output file is known by its name and the run that wrote it: what
\* site-content.json and assets-index.json hold is siteContent and assets of
\* that run
outFile(name) == [name |-> name, writtenIn |-> run]

\* the writes of lines 455-467, in order
outputWrites ==
  <<"site-content.json">>
    \o (IF opts.genLlms /\ siteContent.suggestedLlmsTxt # <<>>
          THEN <<"llms-txt-suggestion.txt">> ELSE <<>>)
    \o (IF opts.genMd THEN <<"site-content.md">> ELSE <<>>)
    \o <<"assets-index.json">>

\* the directory after the first k of the writes
written(fs, k) ==
  LET names == {outputWrites[i] : i \in 1..k} IN
  {f \in fs : f.name \notin names} \cup {outFile(n) : n \in names}

successFlagAlways(errs) == TRUE

successFlag(errs) == Len(errs) = 0

\* lines 455-479: every write succeeds and the function returns
Persist ==
  /\ pc = "persist"
  /\ steps' = Append(steps, Ev("persist", 0))
  /\ UNCHANGED engineCalls
  /\ outFs' = written(outFs, Len(outputWrites))
  /\ result' = [returned |-> TRUE, success |-> successFlag(errors),
                siteContent |-> siteContent, errors |-> errors]
  /\ pc' = "done"
  /\ UNCHANGED <<run, opts, assetsFs, contentFs, htmlFiles, idx, pages, assets, errors,
                 scrapeThrew, siteContent, call, ret>>

\* lines 455-467 with write k + 1 throwing: nothing catches it
PersistThrows ==
  /\ pc = "persist"
  /\ steps' = Append(steps, Ev("persist", 0))
  /\ UNCHANGED engineCalls
  /\ \E k \in 0..(Len(outputWrites) - 1) : outFs' = written(outFs, k)
  /\ pc' = "thrown"
  /\ UNCHANGED <<run, opts, assetsFs, contentFs, htmlFiles, idx, pages, assets, errors,
                 scrapeThrew, siteContent, result, call, ret>>

Next ==
  \/ Start
  \/ StartThrows
  \/ Scrape
  \/ ScrapeThrows
  \/ FindHtml
  \/ FindHtmlThrows
  \/ ExtractFile
  \/ ExtractDone
  \/ Catalog
  \/ CatalogThrows
  \/ Assemble
  \/ Persist
  \/ PersistThrows

Spec == Init /\ [][Next]_vars

(***************************************************************************)
(* The pure functions, called on their own: call holds the arguments of    *)
(* the call, ret what it returned.  The functions keep no state, so one    *)
(* call per behaviour covers them.                                         *)
(***************************************************************************)
MaxSitemapPages == 3

MaxDigestPages == 2

\* seeds that parse (fetchWebsite has parsed options.url before urlFilter exists)
Seeds ==
  { <<"https", ":", "//", "ex", ".", "com", "/">>,
    <<"https", ":", "//", "www", ".", "ex", ".", "com", "/">>,
    <<"http", ":", "//", "WWW", ".", "EX", ".", "com", "/", "dir", "/", "page">>,
    <<"https", ":", "//", "shop", ".", "ex", ".", "com">> }

Hosts ==
  { <<"ex", ".", "com">>,
    <<"www", ".", "ex", ".", "com">>,
    <<"www", ".", "www", ".", "ex", ".", "com">>,
    <<"WWW", ".", "EX", ".", "com">>,
    <<"shop", ".", "ex", ".", "com">>,
    <<"ex", " ", "com">> }

Paths ==
  { <<>>,
    <<"/">>,
    <<"/", "about">>,
    <<"/", "wp-admin">>,
    <<"/", "wp-admin", "/", "post", ".", "php">>,
    <<"/", "wp-login", ".", "php">>,
    <<"/", "blog", "/", "wp-login">>,
    <<"/", "blog", "/", "wp-admin", "-tips">>,
    <<"/", "my-", "wp-admin">> }

AbsUrl(scheme, host, path) == <<scheme, ":", "//">> \o host \o path

\* candidates that are not scheme://host/path
OtherCandidates ==
  { <<"mailto", ":", "me@ex.com">>,
    <<"tel", ":", "123">>,
    <<"javascript", ":", "void(0)">>,
    <<"#", "top">>,
    <<>>,
    <<"/", "about">>,
    <<"/", "wp-admin", "/">>,
    <<"contact", ".", "htm", "l">>,
    <<"wp-login", ".", "php">> }

CallUrlFilter ==
  /\ call = NoCall
  /\ \/ \E scheme \in SpecialSchemes, host \in Hosts, path \in Paths, seed \in Seeds :
          /\ call' = [op |-> "urlFilter", form |-> "absolute", scheme |-> scheme,
                      host |-> host, path |-> path,
                      resourceUrl |-> AbsUrl(scheme, host, path), url |-> seed]
          /\ ret' = urlFilter(AbsUrl(scheme, host, path), seed)
     \/ \E c \in OtherCandidates, seed \in Seeds :
          /\ call' = [op |-> "urlFilter", form |-> "other", scheme |-> "",
                      host |-> <<>>, path |-> <<>>, resourceUrl |-> c, url |-> seed]
          /\ ret' = urlFilter(c, seed)
  /\ UNCHANGED runVars

\* a host folder (or what merely begins like one) in front of a local path
Folders ==
  { <<>>,
    <<"ex", ".", "com", "/">>,
    <<"www", ".", "ex", ".", "com", "/">>,
    <<"shop", ".", "ex", ".", "com", "/">>,
    <<"ex", ".", "com">>,
    <<"ex", ".", "com", "munity", "/">>,
    <<"ex", ".", "com", "_8080", "/">>,
    <<"cdn", ".", "net", "/">> }

LocalRests ==
  { <<>>,
    <<"index", ".", "htm", "l">>,
    <<"about", ".", "htm", "l">>,
    <<"dir", "/", "index", ".", "htm", "l">>,
    <<"dir", "/", "about", ".", "htm", "l">>,
    <<"dir", "/", "sub", "/", "index", ".", "htm", "l">>,
    <<"old", ".", "htm">>,
    <<"css", "/", "site", ".", "css">> }

CallReconstructUrl ==
  /\ call = NoCall
  /\ \E seed \in Seeds, folder \in Folders, rest \in LocalRests :
       /\ call' = [op |-> "reconstructUrl", baseUrl |-> seed,
                   relativePath |-> folder \o rest]
       /\ ret' = reconstructUrl(seed, folder \o rest)
  /\ UNCHANGED runVars

\* sequences over S of length 1..n
SeqsUpTo(S, n) == UNION {[1..k -> S] : k \in 1..n}

EmptyHtml ==
  [title |-> <<>>, metaDescription |-> <<>>, ogDescription |-> <<>>,
   hs |-> <<>>, ps |-> <<>>, anchors |-> <<>>, version |-> 0]

PageAt(seed, path, html) == extractPageContent(html, Origin(ParseAbsolute(seed)) \o path)

SitemapPages ==
  { PageAt(SeedUrl, path, [EmptyHtml EXCEPT !.title = title]) :
      path \in { <<"/">>, <<"/", "about">>, <<"/", "a", "/">>, <<"/", "a", "/", "b", "/">>,
                 <<"/", "a", "/", "b">> },
      title \in { <<>> } }

CallBuildSitemap ==
  /\ call = NoCall
  /\ \E pgs \in SeqsUpTo(SitemapPages, MaxSitemapPages) :
       /\ call' = [op |-> "buildSitemap", pages |-> pgs]
       /\ ret' = buildSitemap(pgs)
  /\ UNCHANGED runVars

H(level, text) == [level |-> level, text |-> text]

DigestHtmls ==
  { [EmptyHtml EXCEPT !.title = <<"Home">>, !.metaDescription = <<"intro">>,
                      !.hs = <<H(1, <<"Home">>), H(3, <<"Detail">>), H(2, <<"News">>)>>,
                      !.ps = <<Text(SummaryLimit + 10), Text(ParagraphMin + 1)>>],
    [EmptyHtml EXCEPT !.hs = <<H(1, <<"About">>)>>],
    [EmptyHtml EXCEPT !.title = <<"Bare">>, !.ps = <<Text(ParagraphMin)>>],
    [EmptyHtml EXCEPT !.ps = <<Text(SummaryLimit)>>],
    [EmptyHtml EXCEPT !.ps = <<Text(ParagraphMin), Text(SummaryLimit + 1)>>],
    [EmptyHtml EXCEPT !.ps = <<Text(SummaryLimit - 1)>>, !.ogDescription = <<"og">>],
    [EmptyHtml EXCEPT !.hs = <<H(3, <<"Deep">>), H(4, <<>>)>>],
    [EmptyHtml EXCEPT !.title = <<"T">>, !.ps = <<Text(ParagraphMin + 1)>>] }

DigestPages ==
  { PageAt(SeedUrl, path, html) : path \in { <<"/">>, <<"/", "about">> }, html \in DigestHtmls }

CallGenerateLlmsTxt ==
  /\ call = NoCall
  /\ \E pgs \in SeqsUpTo(DigestPages, MaxDigestPages) :
       /\ call' = [op |-> "generateLlmsTxt", pages |-> pgs, baseUrl |-> SeedUrl]
       /\ ret' = llmsTxtLines(pgs, SeedUrl)
  /\ UNCHANGED runVars

MaxParagraphs == 2

MaxAnchors == 2

\* the text of a p element: 19 to 22 characters, with and without white
\* space around them, and nothing but white space
ParagraphTexts ==
  { <<>>,
    <<" ">>,
    Text(ParagraphMin - 1),
    Text(ParagraphMin),
    Text(ParagraphMin + 1),
    Text(ParagraphMin + 2),
    <<" ">> \o Text(ParagraphMin) \o <<" ">>,
    <<" ">> \o Text(ParagraphMin + 1) }

\* the pages the documents are extracted as
PageUrls ==
  { <<"https", ":", "//", "ex", ".", "com", "/">>,
    <<"https", ":", "//", "www", ".", "ex", ".", "com", "/", "about">> }

\* the href attribute of an a element
Hrefs ==
  { <<>>,
    <<"#", "top">>,
    <<"javascript", ":", "void(0)">>,
    <<"mailto", ":", "me@ex.com">>,
    <<"/", "about">>,
    <<"httpd", "/", "docs">>,
    <<"https", ":", "//", "ex", ".", "com", "/", "about">>,
    <<"https", ":", "//", "EX", ".", "com", "/">>,
    <<"http", ":", "//", "shop", ".", "ex", ".", "com", "/">>,
    <<"https", ":", "//", "other", ".", "net", "/">>,
    <<"https", ":", "//", "share", ".", "net", "/", "?", "u", "=", "ex", ".", "com">> }

Anchor(href) == [href |-> href, text |-> <<" ", "link">>]

CallExtractPageContent ==
  /\ call = NoCall
  /\ \E url \in PageUrls :
       \/ \E ps \in {<<>>} \cup SeqsUpTo(ParagraphTexts, MaxParagraphs) :
            LET html == [EmptyHtml EXCEPT !.ps = ps] IN
            /\ call' = [op |-> "extractPageContent", html |-> html, url |-> url]
            /\ ret' = extractPageContent(html, url)
       \/ \E hrefs \in SeqsUpTo(Hrefs, MaxAnchors) :
            LET html == [EmptyHtml EXCEPT
                           !.anchors = [i \in 1..Len(hrefs) |-> Anchor(hrefs[i])]] IN
            /\ call' = [op |-> "extractPageContent", html |-> html, url |-> url]
            /\ ret' = extractPageContent(html, url)
  /\ UNCHANGED runVars

CallNext ==
  \/ CallUrlFilter
  \/ CallReconstructUrl
  \/ CallBuildSitemap
  \/ CallGenerateLlmsTxt
  \/ CallExtractPageContent

CallSpec == Init /\ [][CallNext]_vars

(***************************************************************************)
(* Properties of fetchWebsite, stated of the behaviours of Spec.           *)
(***************************************************************************)

\* C1: whenever fetchWebsite has returned, the success flag of the result is
\* TRUE exactly when the error list of the result is empty; a run with no
\* page and no error therefore returns success = TRUE.
C1_SuccessIffNoErrors ==
  result.returned => (result.success <=> result.errors = <<>>)

C1_Witness ==
  /\ pc = "done"
  /\ result.returned
  /\ result.siteContent.totalPages = 0
  /\ result.errors = <<>>
  /\ result.success

IsOutFile(name, r) == \E f \in outFs : f.name = name /\ f.writtenIn = r

ErrorsNaming(htmlFile) ==
  {i \in 1..Len(errors) :
     StartsWith(errors[i], <<"Error extracting ">> \o htmlFile \o <<": ">>)}

HasPageOf(htmlFile) ==
  \E i \in 1..Len(pages) :
    pages[i].url = reconstructUrl(SeedUrl, relativeToAssets(htmlFile))

\* C3: in the extraction loop a file adds at most one error string, which
\* names it; a file the loop has not reached has neither page nor error; a
\* file the loop has passed has a page or its error, also when a file before
\* it failed; and once the loop is left every file of the list has been
\* processed: a failure ends neither the loop nor the run.
C3_FailureDoesNotStopTheLoop ==
  /\ pc = "extract" => idx \in 1..(Len(htmlFiles) + 1)
  /\ \A i \in 1..Len(htmlFiles) :
       LET htmlFile == htmlFiles[i]
           reached == pc # "extract" \/ i < idx
       IN  /\ Cardinality(ErrorsNaming(htmlFile)) <= 1
           /\ reached => (HasPageOf(htmlFile) \/ ErrorsNaming(htmlFile) # {})
           /\ ~reached => (~HasPageOf(htmlFile) /\ ErrorsNaming(htmlFile) = {})
  /\ Cardinality({i \in 1..Len(errors) : StartsWith(errors[i], <<"Error extracting ">>)})
       <= Len(htmlFiles)
  /\ (htmlFiles # <<>> /\ pc \in {"catalog", "assemble", "persist", "done", "thrown"})
       => idx = Len(htmlFiles) + 1

C3_Witness ==
  /\ pc = "done"
  /\ Len(htmlFiles) = 2
  /\ ErrorsNaming(htmlFiles[1]) # {}
  /\ ~HasPageOf(htmlFiles[1])
  /\ HasPageOf(htmlFiles[2])
  /\ ErrorsNaming(htmlFiles[2]) = {}

\* C4: once a run has returned, every PageRecord and AssetRecord of the
\* result, every per-page file under the content directory and both JSON
\* output files come from the downloads of that run, none from an earlier one.
C4_NoRecordSurvivesARun ==
  pc = "done" =>
    /\ \A i \in 1..Len(result.siteContent.pages) :
         result.siteContent.pages[i].rawHtml.version = run
    /\ \A i \in 1..Len(result.siteContent.assets) :
         LET a == result.siteContent.assets[i] IN
         a.size = Downloaded(a.localPath, run).size
    /\ IsOutFile("site-content.json", run)
    /\ IsOutFile("assets-index.json", run)
    /\ \A f \in contentFs : f.page.rawHtml.version = run

(***************************************************************************)
(* Properties of the pure functions, stated of the behaviours of CallSpec. *)
(***************************************************************************)
IsFilterCall == call.op = "urlFilter"

\* the candidate of the call, resolved against the seed of the call
Resolved == ParseURL(call.resourceUrl, call.url)

\* C5 as stated: for every hostname h the predicate answers alike for a URL
\* on h and for the same URL on www.h.
C5_WwwInsensitiveForEveryHost ==
  (IsFilterCall /\ call.form = "absolute") =>
    ret = urlFilter(AbsUrl(call.scheme, <<"www", ".">> \o call.host, call.path), call.url)

\* C5, amended: for every hostname h that does not itself begin with www.
\* (in any letter case), the predicate answers alike for a URL on h and for
\* the same URL on www.h, whatever the scheme, the path and the seed.
C5_WwwInsensitive ==
  (IsFilterCall /\ call.form = "absolute" /\ LowerTok(call.host[1]) # "www") =>
    ret = urlFilter(AbsUrl(call.scheme, <<"www", ".">> \o call.host, call.path), call.url)

C5_Witness ==
  /\ IsFilterCall
  /\ call.form = "absolute"
  /\ call.host = <<"ex", ".", "com">>
  /\ ParseAbsolute(call.url).hostname = <<"ex", ".", "com">>
  /\ ret = TRUE
  /\ urlFilter(AbsUrl(call.scheme, <<"www", ".">> \o call.host, call.path), call.url)

\* the segments of a path: the token runs between its "/" tokens
RECURSIVE Segments(_)
Segments(path) ==
  IF path = <<>> THEN {}
  ELSE IF Head(path) = "/" THEN Segments(Tail(path))
  ELSE {UpToSlash(path)} \cup Segments(Slice(path, Len(UpToSlash(path))))

HasAdminSegment(path) ==
  <<"wp-admin">> \in Segments(path) \/ <<"wp-login">> \in Segments(path)

\* C6: a candidate that resolves to a URL whose path has a segment wp-admin
\* or wp-login is refused, whatever its host, its scheme and the seed.
C6_AdminSegmentRefused ==
  (IsFilterCall /\ Resolved.ok /\ HasAdminSegment(Resolved.pathname)) => ret = FALSE

StripWww(h) ==
  IF Len(h) >= 2 /\ h[1] = "www" /\ h[2] = "." THEN [i \in 1..(Len(h) - 2) |-> h[i + 2]]
  ELSE h

SameSite(u, seed) == StripWww(u.hostname) = StripWww(seed.hostname)

C6_Witness ==
  /\ IsFilterCall
  /\ call.form = "absolute"
  /\ call.scheme = "https"
  /\ Resolved.ok
  /\ SameSite(Resolved, ParseAbsolute(call.url))
  /\ HasAdminSegment(Resolved.pathname)
  /\ ret = FALSE

\* an admin marker in a path: the characters /wp-admin or /wp-login anywhere
HasAdminMarker(path) ==
  \E i \in 1..(Len(path) - 1) : path[i] = "/" /\ path[i + 1] \in {"wp-admin", "wp-login"}

IsReconstructCall == call.op = "reconstructUrl"

IndexHtml == <<"index", ".", "htm", "l">>

DotHtml == <<".", "htm", "l">>

\* s without its last n tokens
DropLast(s, n) == [i \in 1..(Len(s) - n) |-> s[i]]

\* C8: with origin the seed's origin and p the local path behind its host
\* folder (the local path itself when it has none): p empty or index.html
\* gives origin/, p = d/index.html gives origin/d/, any other p = q.html
\* gives origin/q; so index.html, dir/index.html and about.html give
\* origin/, origin/dir/ and origin/about for every seed.
C8_ReconstructedUrl ==
  IsReconstructCall =>
    LET base == ParseAbsolute(call.baseUrl)
        origin == <<base.protocol, ":", "//">> \o base.hostname
        p == stripHostFolder(call.relativePath, hostVariants(base), 1)
    IN  /\ (p = <<>> \/ p = IndexHtml) => ret = origin \o <<"/">>
        /\ (p # IndexHtml /\ EndsWith(p, <<"/">> \o IndexHtml))
             => ret = origin \o <<"/">> \o DropLast(p, Len(IndexHtml))
        /\ (p # IndexHtml /\ ~EndsWith(p, <<"/">> \o IndexHtml) /\ EndsWith(p, DotHtml))
             => ret = origin \o <<"/">> \o DropLast(p, Len(DotHtml))
        /\ call.relativePath = IndexHtml => ret = origin \o <<"/">>
        /\ call.relativePath = <<"dir", "/">> \o IndexHtml
             => ret = origin \o <<"/", "dir", "/">>
        /\ call.relativePath = <<"about">> \o DotHtml => ret = origin \o <<"/", "about">>

C8_Witness ==
  /\ IsReconstructCall
  /\ call.relativePath = <<"www", ".", "ex", ".", "com", "/", "dir", "/", "about">> \o DotHtml
  /\ ParseAbsolute(call.baseUrl).hostname = <<"ex", ".", "com">>
  /\ ret = <<"https", ":", "//", "ex", ".", "com", "/", "dir", "/", "about">>

IsSitemapCall == call.op = "buildSitemap"

SlashCount(path) == Cardinality({i \in 1..Len(path) : path[i] = "/"})

Bijections(n) == {f \in [1..n -> 1..n] : \A i, j \in 1..n : f[i] = f[j] => i = j}

\* C9: the sitemap has one entry per page: some one-to-one assignment of the
\* entries to the pages gives each entry the url and title of its page and
\* the number of "/" in its path as depth, and it keeps pages of equal depth
\* in their input order; the depths of the entries never decrease.
C9_SitemapSortedStable ==
  IsSitemapCall =>
    /\ Len(ret) = Len(call.pages)
    /\ \A i \in 1..(Len(ret) - 1) : ret[i].depth <= ret[i + 1].depth
    /\ \E from \in Bijections(Len(ret)) :
         /\ \A i \in 1..Len(ret) :
              /\ ret[i].url = call.pages[from[i]].url
              /\ ret[i].title = call.pages[from[i]].title
              /\ ret[i].depth = SlashCount(call.pages[from[i]].path)
         /\ \A i, j \in 1..Len(ret) :
              (i < j /\ ret[i].depth = ret[j].depth) => from[i] < from[j]

C9_Witness ==
  /\ IsSitemapCall
  /\ Len(call.pages) = 3
  /\ SlashCount(call.pages[1].path) > SlashCount(call.pages[2].path)
  /\ SlashCount(call.pages[2].path) = SlashCount(call.pages[3].path)
  /\ call.pages[2].url # call.pages[3].url
  /\ ret[1].url = call.pages[2].url
  /\ ret[2].url = call.pages[3].url
  /\ ret[3].url = call.pages[1].url

IsDigestCall == call.op = "generateLlmsTxt"

\* the lines of the digest that are body text: every other line is empty or
\* begins with the marker of its kind
IsBodyLine(line) == line # <<>> /\ line[1] \in {"a", "b"}

\* what the claim says of a first paragraph
ExpectedSummary(paragraph) ==
  IF Len(paragraph) > 300
    THEN [i \in 1..301 |-> IF i <= 300 THEN paragraph[i] ELSE "..."]
    ELSE paragraph

RECURSIVE ExpectedSummaries(_)
ExpectedSummaries(pgs) ==
  IF pgs = <<>> THEN <<>>
  ELSE (IF Head(pgs).paragraphs # <<>>
          THEN <<ExpectedSummary(Head(pgs).paragraphs[1])>> ELSE <<>>)
         \o ExpectedSummaries(Tail(pgs))

\* C10: the summary lines of the digest are, page by page, the first
\* paragraph of each page that has one: its first 300 characters and an
\* ellipsis when it is longer than 300 characters, the paragraph itself
\* when it has 300 characters or fewer.
C10_SummaryTruncation ==
  IsDigestCall => SelectSeq(ret, IsBodyLine) = ExpectedSummaries(call.pages)

C10_Witness ==
  /\ IsDigestCall
  /\ Len(call.pages) = 2
  /\ call.pages[1].paragraphs # <<>>
  /\ call.pages[2].paragraphs # <<>>
  /\ Len(call.pages[1].paragraphs[1]) = 310
  /\ Len(call.pages[2].paragraphs[1]) = 300
  /\ \E i, j \in 1..Len(ret) :
       /\ i < j
       /\ Len(ret[i]) = 301
       /\ ret[i][301] = "..."
       /\ ret[j] = call.pages[2].paragraphs[1]

\* a page with at least one heading or at least one paragraph
HasContent(page) == page.headings # <<>> \/ page.paragraphs # <<>>

IsSectionHead(line) == line # <<>> /\ line[1] = "### "

IsUrlLine(line) == line # <<>> /\ line[1] = "URL: "

IsBullet(line) == line # <<>> /\ line[1] = "- "

IsHeadOrBullet(line) == IsSectionHead(line) \/ IsBullet(line)

IsMainHeading(h) == h.level \in {1, 2}

\* what the claim says of the subsections: per page with content, in input
\* order, its head and a bullet per heading of level 1 or 2
RECURSIVE ExpectedHeadsAndBullets(_)
ExpectedHeadsAndBullets(pgs) ==
  IF pgs = <<>> THEN <<>>
  ELSE LET page == Head(pgs)
           main == SelectSeq(page.headings, IsMainHeading)
       IN  (IF HasContent(page)
              THEN << <<"### ">> \o page.title >>
                     \o [i \in 1..Len(main) |-> <<"- ">> \o main[i].text]
              ELSE <<>>)
             \o ExpectedHeadsAndBullets(Tail(pgs))

\* C11: the digest has a content subsection for exactly the pages that have
\* a heading or a paragraph, in the input order of the pages (their heads
\* and their URL lines say so), and the bullets of a subsection are the
\* headings of level 1 or 2 of its page, in order, and no other heading.
C11_SubsectionsAndBullets ==
  IsDigestCall =>
    LET withContent == SelectSeq(call.pages, HasContent) IN
    /\ SelectSeq(ret, IsUrlLine)
         = [i \in 1..Len(withContent) |-> <<"URL: ">> \o withContent[i].url]
    /\ SelectSeq(ret, IsHeadOrBullet) = ExpectedHeadsAndBullets(call.pages)

C11_Witness ==
  /\ IsDigestCall
  /\ Len(call.pages) = 2
  /\ ~HasContent(call.pages[1])
  /\ Len(call.pages[2].headings) = 3
  /\ call.pages[2].headings[2].level = 3
  /\ Len(SelectSeq(ret, IsSectionHead)) = 1
  /\ SelectSeq(ret, IsBullet) = << <<"- ", "Home">>, <<"- ", "News">> >>

IsExtractCall == call.op = "extractPageContent"

\* the positions of the p elements whose trimmed text has more than 20
\* characters
LongParagraphs(ps) == {i \in 1..Len(ps) : Len(Trim(ps[i])) > 20}

\* the k-th smallest member of a set of positions
KthOf(S, k) == CHOOSE i \in S : Cardinality({j \in S : j < i}) = k - 1

\* C12: the paragraphs of the record are the trimmed texts of exactly the p
\* elements whose trimmed text is longer than 20 characters, in document
\* order: a text of exactly 20 characters is never among them, one of 21
\* characters always is.
C12_ParagraphsLongerThan20 ==
  IsExtractCall =>
    LET ps == call.html.ps
        long == LongParagraphs(ps)
    IN  /\ Len(ret.paragraphs) = Cardinality(long)
        /\ \A k \in 1..Len(ret.paragraphs) : ret.paragraphs[k] = Trim(ps[KthOf(long, k)])
        /\ \A k \in 1..Len(ret.paragraphs) : Len(ret.paragraphs[k]) # 20
        /\ \A i \in 1..Len(ps) :
             Len(Trim(ps[i])) = 21 => \E k \in 1..Len(ret.paragraphs) : ret.paragraphs[k] = Trim(ps[i])

C12_Witness ==
  /\ IsExtractCall
  /\ Len(call.html.ps) = 2
  /\ Len(call.html.ps[1]) = 22
  /\ Len(Trim(call.html.ps[1])) = 20
  /\ Len(Trim(call.html.ps[2])) = 21
  /\ ret.paragraphs = <<Trim(call.html.ps[2])>>

HasRefusedPrefix(c) ==
  /\ c # <<>>
  /\ \/ c[1] = "#"
     \/ Len(c) >= 2 /\ c[1] \in {"mailto", "tel", "javascript"} /\ c[2] = ":"

WholeSegmentStrip(relativePath, variants) ==
  LET first == UpToSlash(relativePath) IN
  IF \E i \in 1..Len(variants) : first = variants[i]
    THEN Slice(relativePath, Len(first) + 1)
    ELSE relativePath

\* the URL of a local path p that has no host folder
CleanUrl(origin, p) ==
  IF p = <<>> \/ p = IndexHtml THEN origin \o <<"/">>
  ELSE IF EndsWith(p, <<"/">> \o IndexHtml) THEN origin \o <<"/">> \o DropLast(p, Len(IndexHtml))
  ELSE IF EndsWith(p, DotHtml) THEN origin \o <<"/">> \o DropLast(p, Len(DotHtml))
  ELSE origin \o <<"/">> \o p

\* C14: reconstructUrl takes the first segment off the local path exactly
\* when that whole segment is the seed hostname, the seed hostname without
\* www. or the seed hostname with www. in front; a local path whose first
\* segment is none of these goes on whole.
C14_WholeSegmentStripped ==
  IsReconstructCall =>
    LET base == ParseAbsolute(call.baseUrl)
        origin == <<base.protocol, ":", "//">> \o base.hostname
    IN  ret = CleanUrl(origin, WholeSegmentStrip(call.relativePath, hostVariants(base)))

(***************************************************************************)
(* Properties of the order of the steps of a run, stated of Spec.          *)
(***************************************************************************)
\* the positions in the history of the run where a step of the kind ended
Pos(op) == {i \in 1..Len(steps) : steps[i].op = op}

HasScrapingError ==
  \E i \in 1..Len(errors) : StartsWith(errors[i], <<"Scraping error: ">>)

\* C15: in the history of a run every extraction of a file comes behind
\* the end of the call of the fetch engine; the extractions come one by
\* one, the k-th of them being that of the k-th HTML file and of no other;
\* the cataloguing comes behind the extraction of every HTML file of the
\* list; the aggregate is assembled behind the cataloguing, behind every
\* extraction and behind the engine call, and persisted behind its
\* assembly; and an aggregate that is assembled without a cataloguing
\* before it belongs to a run whose try block has failed.
C15_PhasesInOrder ==
  /\ Cardinality(Pos("scrape")) <= 1
  /\ \A i \in Pos("extract") : \E j \in Pos("scrape") : j < i
  /\ \A i \in Pos("extract") :
       /\ steps[i].file = Cardinality({j \in Pos("extract") : j <= i})
       /\ steps[i].file \in 1..Len(htmlFiles)
  /\ \A c \in Pos("catalog") :
       /\ \A i \in Pos("extract") \cup Pos("scrape") : i < c
       /\ {steps[i].file : i \in Pos("extract")} = 1..Len(htmlFiles)
  /\ \A a \in Pos("assemble") :
       /\ \A i \in Pos("catalog") \cup Pos("extract") \cup Pos("scrape") : i < a
       /\ Pos("catalog") = {} => HasScrapingError
  /\ \A w \in Pos("persist") : \E a \in Pos("assemble") : a < w
  /\ Cardinality(Pos("catalog")) <= 1
  /\ Cardinality(Pos("assemble")) <= 1
  /\ Cardinality(Pos("persist")) <= 1

C15_Witness ==
  /\ pc = "done"
  /\ steps = << Ev("scrape", 0), Ev("extract", 1), Ev("extract", 2), Ev("catalog", 0),
                Ev("assemble", 0), Ev("persist", 0) >>
  /\ Len(pages) = 1
  /\ Len(errors) = 1

\* the page the run holds for an HTML file of the list
PageOf(htmlFile) ==
  pages[CHOOSE i \in 1..Len(pages) :
          pages[i].url = reconstructUrl(SeedUrl, relativeToAssets(htmlFile))]

\* C16: every page the run has extracted has exactly one per-page file
\* under the content directory; the path of that file ends in .json and,
\* for a page downloaded as p.html, is p.json; the files of two pages of
\* the run are two files.
C16_OneJsonFilePerPage ==
  /\ \A k \in 1..Len(htmlFiles) :
       HasPageOf(htmlFiles[k]) =>
         LET rel == relativeToAssets(htmlFiles[k])
             files == {f \in contentFs : f.page = PageOf(htmlFiles[k])}
         IN  /\ Cardinality(files) = 1
             /\ \A f \in files :
                  /\ EndsWith(f.path, <<".", "json">>)
                  /\ EndsWith(rel, DotHtml) => f.path = DropLast(rel, Len(DotHtml)) \o <<".", "json">>
  /\ \A f, g \in contentFs :
       (f.page.rawHtml.version = run /\ g.page.rawHtml.version = run /\ f.page # g.page)
         => f.path # g.path

\* the host of an href on a page: its own when it is absolute, the page's
\* when it is relative
HrefHost(href, pageUrl) == ParseURL(href, pageUrl).hostname

BeginsWithHttp(href) == href # <<>> /\ href[1] \in {"http", "https", "httpd"}

\* C17: every link of the record has isExternal TRUE exactly when its href
\* begins with http and the host of the href does not contain the hostname
\* of the page.
C17_ExternalIffForeignHost ==
  IsExtractCall =>
    \A i \in 1..Len(ret.links) :
      LET href == ret.links[i].href IN
      ret.links[i].isExternal
        <=> /\ BeginsWithHttp(href)
            /\ ~Includes(HrefHost(href, call.url), ParseAbsolute(call.url).hostname)

\* the names under which a configuration of the engine can carry the limits
ConcurrencyKeys == {"requestConcurrency", "maxConcurrency", "concurrency"}

TimeoutKeys == {"timeout", "requestTimeout"}

\* C18: the locals maxConcurrency and timeout of a run are what the caller
\* gave, 5 and 30000 when the caller gave nothing, and the configuration
\* of every call of the fetch engine by the run carries both: the
\* concurrency limit, and the timeout either as an option of its own or
\* among the request options.
C18_EngineCallCarriesLimits ==
  /\ opts.maxConcurrency = (IF opts.limits = <<>> THEN 5 ELSE opts.limits[1])
  /\ opts.timeout = (IF opts.limits = <<>> THEN 30000 ELSE opts.limits[2])
  /\ \A i \in 1..Len(engineCalls) :
       LET config == engineCalls[i] IN
       /\ \E k \in ConcurrencyKeys \cap DOMAIN config : config[k] = opts.maxConcurrency
       /\ \/ \E k \in TimeoutKeys \cap DOMAIN config : config[k] = opts.timeout
          \/ \E k \in TimeoutKeys \cap DOMAIN config.request :
               config.request[k] = opts.timeout

\* the HTML files the extraction loop of the run has visited
Visited == {htmlFiles[steps[i].file] : i \in Pos("extract")}

ExtractErrors == {i \in 1..Len(errors) : StartsWith(errors[i], <<"Error extracting ">>)}

\* C19: when a run has returned, every HTML file its extraction loop has
\* visited has either one page in the page list and no error, or one error
\* in the error list and no page; the pages and the extraction errors
\* together are as many as the files visited.
C19_PageOrErrorPerFile ==
  pc = "done" =>
    /\ \A htmlFile \in Visited :
         \/ /\ HasPageOf(htmlFile)
            /\ ErrorsNaming(htmlFile) = {}
         \/ /\ ~HasPageOf(htmlFile)
            /\ Cardinality(ErrorsNaming(htmlFile)) = 1
    /\ Len(pages) + Cardinality(ExtractErrors) = Cardinality(Visited)

====
